---- MODULE Spec2Model ----
(***************************************************************************)
(* Velocity-tree construction of dynamo/tools/construct_velocity_tree.py:  *)
(*   _compute_transition_matrix      (Cluster Transition Aggregator)       *)
(*   _calculate_segment_probability  (Segment Likelihood Evaluator)        *)
(*   construct_velocity_tree         (Cluster Tree Orienter)               *)
(*   remove_velocity_points          (Per-Cell Graph Contractor)           *)
(*                                                                         *)
(* Numbers.  A float is modelled as a triple <<kind, n, d>>:               *)
(*   <<"fin", n, d>>   the rational n/d in lowest terms, d > 0             *)
(*   <<"pinf",0,1>>, <<"ninf",0,1>>, <<"nan",0,1>>   IEEE specials         *)
(*   <<"pmax",0,1>>, <<"nmax",0,1>>   +/- the largest finite float, which  *)
(*                     is what np.nan_to_num puts in place of +/- inf      *)
(*   <<"ln", n, d>>    the natural logarithm of the rational n/d, n/d > 0  *)
(*                     and n/d # 1 (ln 1 is <<"fin", 0, 1>>)               *)
(*   <<"lnmax",0,1>>   the logarithm of the largest finite float           *)
(* Arithmetic is exact: rationals add as rationals, logarithms add as the  *)
(* logarithm of the product.                                               *)
(***************************************************************************)
EXTENDS Integers, Sequences, FiniteSets, TLC

(***************************************************************************)
(* Bounds of the model                                                     *)
(***************************************************************************)
NCells == 3
NClusters == 3
MaxT == 2
MaxNonzero == 2
RDen == 2
NReal == 2
MaxW == 2
MaxTreeW == 1
MaxBranches == 2
Precision == 3
MaxStepLog == 8
MaxPath == 4

Cells == 0..(NCells - 1)
Clusters == 0..(NClusters - 1)

(***************************************************************************)
(* Float arithmetic                                                        *)
(***************************************************************************)
Abs(x) == IF x < 0 THEN -x ELSE x

RECURSIVE GCD(_, _)
GCD(a, b) == IF b = 0 THEN a ELSE GCD(b, a % b)

Fin(n, d) ==
    LET g == GCD(Abs(n), Abs(d))
        s == IF d < 0 THEN -1 ELSE 1
    IN  <<"fin", (s * n) \div g, (s * d) \div g>>

Zero == <<"fin", 0, 1>>
One == <<"fin", 1, 1>>
PInf == <<"pinf", 0, 1>>
NInf == <<"ninf", 0, 1>>
NaN == <<"nan", 0, 1>>
PMax == <<"pmax", 0, 1>>
NMax == <<"nmax", 0, 1>>

LnMax == <<"lnmax", 0, 1>>

\* np.isfinite
IsFinite(x) == x[1] \notin {"pinf", "ninf", "nan"}

\* ln(n/d) for n, d > 0
Ln(n, d) ==
    LET g == GCD(n, d)
    IN  IF n = d THEN Zero ELSE <<"ln", n \div g, d \div g>>

\* the rational whose logarithm x is, for x a sum of logarithms
ExpNum(x) == IF x[1] = "ln" THEN x[2] ELSE 1
ExpDen(x) == IF x[1] = "ln" THEN x[3] ELSE 1

Neg(x) ==
    CASE x[1] = "fin" -> <<"fin", -x[2], x[3]>>
      [] x[1] = "pinf" -> NInf
      [] x[1] = "ninf" -> PInf
      [] x[1] = "pmax" -> NMax
      [] x[1] = "nmax" -> PMax
      [] OTHER -> NaN

Add(x, y) ==
    CASE x[1] = "nan" \/ y[1] = "nan" -> NaN
      [] x[1] = "pinf" -> IF y[1] = "ninf" THEN NaN ELSE PInf
      [] x[1] = "ninf" -> IF y[1] = "pinf" THEN NaN ELSE NInf
      [] y[1] \in {"pinf", "ninf"} -> y
      [] x[1] = "pmax" -> IF y[1] = "pmax" THEN PInf
                          ELSE IF y[1] = "nmax" THEN Zero ELSE PMax
      [] x[1] = "nmax" -> IF y[1] = "nmax" THEN NInf
                          ELSE IF y[1] = "pmax" THEN Zero ELSE NMax
      [] y[1] \in {"pmax", "nmax"} -> y
      [] x[1] = "fin" /\ y[1] = "fin" ->
             Fin(x[2] * y[3] + y[2] * x[3], x[3] * y[3])
      [] x[1] \in {"ln", "fin"} /\ y[1] \in {"ln", "fin"}
           /\ (x = Zero \/ x[1] = "ln") /\ (y = Zero \/ y[1] = "ln") ->
             Ln(ExpNum(x) * ExpNum(y), ExpDen(x) * ExpDen(y))

Sub(x, y) == Add(x, Neg(y))

\* product of finite values (the aggregator multiplies finite inputs only)
Mul(x, y) == Fin(x[2] * y[2], x[3] * y[3])

\* IEEE division of finite values: x/0 is +inf, -inf or NaN by the sign of x
Div(x, y) ==
    IF y[2] # 0 THEN Fin(x[2] * y[3], x[3] * y[2])
    ELSE IF x[2] > 0 THEN PInf
    ELSE IF x[2] < 0 THEN NInf
    ELSE NaN

\* line 92 left out
nan_to_num_Skipped(x) == x

\* np.nan_to_num: NaN -> 0, +inf -> largest float, -inf -> smallest float
nan_to_num(x) ==
    CASE x[1] = "nan" -> Zero
      [] x[1] = "pinf" -> PMax
      [] x[1] = "ninf" -> NMax
      [] OTHER -> x

\* x < y on finite rationals
Less(x, y) == x[2] * y[3] < y[2] * x[3]

\* x >= y on sums of logarithms
LnGeq(x, y) == ExpNum(x) * ExpDen(y) >= ExpNum(y) * ExpDen(x)

\* np.log
np_log(x) ==
    CASE x[1] = "fin" /\ x[2] > 0 -> Ln(x[2], x[3])
      [] x[1] = "fin" /\ x[2] = 0 -> NInf
      [] x[1] = "pinf" -> PInf
      [] x[1] = "pmax" -> LnMax
      [] OTHER -> NaN

(***************************************************************************)
(* _compute_transition_matrix                                              *)
(***************************************************************************)
RECURSIVE MaxTo(_, _)
\* largest of row[0..k]
MaxTo(row, k) ==
    IF k = 0 THEN row[0]
    ELSE LET m == MaxTo(row, k - 1) IN IF Less(m, row[k]) THEN row[k] ELSE m

\* np.max(R, axis=1) for one row
np_max(row) == MaxTo(row, NClusters - 1)

\* np.argmax(R, axis=1) for one row: the first index of the maximum
np_argmax(row) ==
    CHOOSE k \in Clusters :
        /\ row[k] = np_max(row)
        /\ \A j \in Clusters : row[j] = np_max(row) => k <= j

highest_probability(Rm) == [i \in Cells |-> np_max(Rm[i])]
assignment(Rm) == [i \in Cells |-> np_argmax(Rm[i])]
clusters(Rm) ==
    LET asg == assignment(Rm)
    IN  [a \in Clusters |-> {i \in Cells : asg[i] = a}]

RECURSIVE SumPairs(_, _, _, _)
\* sum of hp[i] * hp[j] * tmx[i, j] over the pairs <<i, j>> of S
SumPairs(tmx, hp, S, acc) ==
    IF S = {} THEN acc
    ELSE LET p == CHOOSE p \in S : TRUE
         IN  SumPairs(tmx, hp, S \ {p},
                 Add(acc, Mul(Mul(hp[p[1]], hp[p[2]]), Fin(tmx[p], 1))))

\* `for b in range(K)`: the inner loop over all the clusters
bRange_All(a) == Clusters

\* the range of the inner loop over b
bRange(a) == a..(NClusters - 1)

\* the array `transition` after the double loop
transitionOf(tmx, Rm) ==
    LET hp == highest_probability(Rm)
        cl == clusters(Rm)
    IN  [a \in Clusters |-> [b \in Clusters |->
            IF b \in bRange(a) THEN SumPairs(tmx, hp, cl[a] \X cl[b], Zero)
            ELSE Zero]]

RECURSIVE SumOver(_, _, _)
\* row[b] summed for b running over lo..hi
SumOver(row, lo, hi) ==
    IF lo > hi THEN Zero ELSE Add(row[lo], SumOver(row, lo + 1, hi))

\* totals[a] = q written for totals[a] += q: only the last q is kept
totalsOf_Overwrite(trans) ==
    [a \in Clusters |-> trans[a][NClusters - 1]]

\* the list `totals` after the double loop: totals[a] += q for b in range(a, K)
totalsOf(trans) ==
    [a \in Clusters |-> SumOver(trans[a], a, NClusters - 1)]

\* res[res == np.inf] = 0
ReplaceInf(x) == IF x = PInf THEN Zero ELSE x

\* totals left a flat array (no reshape(-1, 1)): the division runs by column
resOf_ColumnTotals(trans, tot) ==
    [a \in Clusters |-> [b \in Clusters |->
        nan_to_num(ReplaceInf(Div(trans[a][b], tot[b])))]]

\* res = transition / totals; res[res == np.inf] = 0; res = np.nan_to_num(res)
resOf(trans, tot) ==
    [a \in Clusters |-> [b \in Clusters |->
        nan_to_num(ReplaceInf(Div(trans[a][b], tot[a])))]]

\* res + res written for res + res.T
Symmetrize_NoTranspose(rs) ==
    [a \in Clusters |-> [b \in Clusters |->
        Sub(Add(rs[a][b], rs[a][b]), IF a = b THEN rs[a][a] ELSE Zero)]]

\* res + res.T without the subtraction of the diagonal
Symmetrize_DoubledDiagonal(rs) ==
    [a \in Clusters |-> [b \in Clusters |-> Add(rs[a][b], rs[b][a])]]

\* res + res.T - np.diag(res.diagonal())
Symmetrize(rs) ==
    [a \in Clusters |-> [b \in Clusters |->
        Sub(Add(rs[a][b], rs[b][a]), IF a = b THEN rs[a][a] ELSE Zero)]]

(***************************************************************************)
(* _calculate_segment_probability                                          *)
(***************************************************************************)
\* m[m == np.inf] = 0
ReplacePosInf(x) == IF x = PInf THEN Zero ELSE x

\* m[m == -np.inf] = 0
ReplaceNegInf(x) == IF x = NInf THEN Zero ELSE x

\* log_center_transition_matrix after lines 98-101
logMatrix(M) ==
    [a \in Clusters |-> [b \in Clusters |->
        nan_to_num(ReplaceNegInf(ReplacePosInf(np_log(M[a][b]))))]]

\* line 104 without the running sum probability[i - 2]
probabilityTo_NoSum(L, ord, k) == L[ord[k]][ord[k + 1]]

RECURSIVE probabilityTo(_, _, _)
\* probability[k] of lines 102-104; ord is indexed from 0
probabilityTo(L, ord, k) ==
    IF k = 0 THEN L[ord[0]][ord[1]]
    ELSE Add(probabilityTo(L, ord, k - 1), L[ord[k]][ord[k + 1]])

\* the list _calculate_segment_probability returns, indexed from 0
calculate_segment_probability(M, ord) ==
    LET L == logMatrix(M)
    IN  [k \in 0..(NClusters - 2) |-> probabilityTo(L, ord, k)]

(***************************************************************************)
(* construct_velocity_tree                                                 *)
(***************************************************************************)
\* np.argsort of a sequence of distinct keys, indexed from 0
np_argsort(keys) ==
    [k \in DOMAIN keys |->
        CHOOSE j \in DOMAIN keys :
            Cardinality({j2 \in DOMAIN keys : keys[j2] < keys[j]}) = k]

\* orders[::-1]
Reversed(ord) == [k \in DOMAIN ord |-> ord[Cardinality(DOMAIN ord) - 1 - k]]

\* the smaller of the two entries in place of the larger
Max_Smaller(x, y) == IF x >= y THEN y ELSE x

Max(x, y) == IF x >= y THEN x ELSE y

\* line 121 with > in place of >=
OrientsForward_Strict(p, prev, k) == ~LnGeq(prev[k - 1], p[k - 1])

\* the branch of line 121
OrientsForward(p, prev, k) == LnGeq(p[k - 1], prev[k - 1])

\* the else branch without line 126
OrientPair_KeepsForward(tree, ord, p, prev, k) ==
    LET r == ord[k - 1]
        c == ord[k]
        m == Max(tree[r][c], tree[c][r])
    IN  IF OrientsForward(p, prev, k)
        THEN [tree EXCEPT ![r][c] = m, ![c][r] = 0]
        ELSE [tree EXCEPT ![c][r] = m]

\* the loop body with r read from orders[0] in place of orders[i - 1]
OrientPair_FromFirst(tree, ord, p, prev, k) ==
    LET r == ord[0]
        c == ord[k]
        m == Max(tree[r][c], tree[c][r])
    IN  IF OrientsForward(p, prev, k)
        THEN [tree EXCEPT ![r][c] = m, ![c][r] = 0]
        ELSE [tree EXCEPT ![c][r] = m, ![r][c] = 0]

\* the body of the loop of lines 117-126 for index k
OrientPair(tree, ord, p, prev, k) ==
    LET r == ord[k - 1]
        c == ord[k]
        m == Max(tree[r][c], tree[c][r])
    IN  IF OrientsForward(p, prev, k)
        THEN [tree EXCEPT ![r][c] = m, ![c][r] = 0]
        ELSE [tree EXCEPT ![c][r] = m, ![r][c] = 0]

(***************************************************************************)
(* Inputs                                                                  *)
(***************************************************************************)
\* rows of R: probability distributions with denominators RDen
RowSum(r) == SumOver([k \in Clusters |-> Fin(r[k], 1)], 0, NClusters - 1)[2]
Rows == {[k \in Clusters |-> Fin(r[k], RDen)] :
            r \in {r \in [Clusters -> 0..RDen] : RowSum(r) = RDen}}

\* cell-level transition matrices with at most MaxNonzero nonzero entries
Supports == {S \in SUBSET (Cells \X Cells) : Cardinality(S) <= MaxNonzero}
SparseMatrix(S, v) == [p \in Cells \X Cells |-> IF p \in S THEN v[p] ELSE 0]

\* the worked example [[0,2,0],[2,0,1],[0,1,0]]
ExampleMatrix ==
    [p \in Cells \X Cells |->
        IF p \in {<<0, 1>>, <<1, 0>>} THEN 2
        ELSE IF p \in {<<1, 2>>, <<2, 1>>} THEN 1 ELSE 0]

\* the transition matrices the model draws its input from
IsTransitionInput(tmx) ==
    \/ \E S \in Supports : \E v \in [S -> 1..MaxT] : tmx = SparseMatrix(S, v)
    \/ tmx = ExampleMatrix


(***************************************************************************)
(* remove_velocity_points                                                  *)
(***************************************************************************)
Nodes == 0..(2 * NReal - 1)
RealNodes == 0..(NReal - 1)
DuplicateNodes == NReal..(2 * NReal - 1)

RECURSIVE nbIdsFrom(_, _, _)
\* nb_ids: the indices nb_id >= k with Gm[v][nb_id] != 0, in increasing order
nbIdsFrom(Gm, v, k) ==
    IF k > 2 * NReal - 1 THEN <<>>
    ELSE IF Gm[v][k] # 0 THEN <<k>> \o nbIdsFrom(Gm, v, k + 1)
    ELSE nbIdsFrom(Gm, v, k + 1)

nbIds(Gm, v) == nbIdsFrom(Gm, v, 0)

RECURSIVE minIndFrom(_, _, _, _, _)
\* min_ind after the scan of lines 34-38 from index k on; hasMin is FALSE while
\* min_val is still np.inf
minIndFrom(Gm, v, k, hasMin, ind) ==
    IF k > 2 * NReal - 1 THEN ind
    ELSE IF Gm[v][k] # 0 /\ (~hasMin \/ Gm[v][k] < Gm[v][ind])
         THEN minIndFrom(Gm, v, k + 1, TRUE, k)
         ELSE minIndFrom(Gm, v, k + 1, hasMin, ind)

RECURSIVE minIndFrom_LastOnTie(_, _, _, _, _)
\* `<=` written for `<` on line 36: the last of several least weights wins
minIndFrom_LastOnTie(Gm, v, k, hasMin, ind) ==
    IF k > 2 * NReal - 1 THEN ind
    ELSE IF Gm[v][k] # 0 /\ (~hasMin \/ Gm[v][k] <= Gm[v][ind])
         THEN minIndFrom_LastOnTie(Gm, v, k + 1, TRUE, k)
         ELSE minIndFrom_LastOnTie(Gm, v, k + 1, hasMin, ind)

minInd_LastOnTie(Gm, v) == minIndFrom_LastOnTie(Gm, v, 0, FALSE, 0)

minInd(Gm, v) == minIndFrom(Gm, v, 0, FALSE, 0)

\* Gm with Gm[a][b] and Gm[b][a] set to w
SetEdge(Gm, a, b, w) ==
    [x \in Nodes |-> [y \in Nodes |->
        IF (x = a /\ y = b) \/ (x = b /\ y = a) THEN w ELSE Gm[x][y]]]

RECURSIVE Reroute(_, _, _, _, _)
\* the loop of lines 39-43 over nb[k..]
Reroute(Gm, v, nb, k, m) ==
    IF k > Len(nb) THEN Gm
    ELSE IF nb[k] # m
         THEN Reroute(SetEdge(Gm, nb[k], m, Gm[v][nb[k]] + Gm[v][m]), v, nb, k + 1, m)
         ELSE Reroute(Gm, v, nb, k + 1, m)

\* the edges removed at the end of the else branch (lines 45-46)
RemoveAfterReroute(Gm, v, nb) == SetEdge(Gm, v, nb[1], 0)

\* the leaf case without line 31
ContractNode_OneWay(Gm, v) ==
    LET nb == nbIds(Gm, v)
    IN  IF Len(nb) = 1 THEN [Gm EXCEPT ![v][nb[1]] = 0]
        ELSE RemoveAfterReroute(Reroute(Gm, v, nb, 1, minInd(Gm, v)), v, nb)

\* one iteration of the loop over nodeid, for a node with at least one neighbor
ContractNode(Gm, v) ==
    LET nb == nbIds(Gm, v)
    IN  IF Len(nb) = 1 THEN SetEdge(Gm, v, nb[1], 0)
        ELSE RemoveAfterReroute(Reroute(Gm, v, nb, 1, minInd(Gm, v)), v, nb)

\* the unordered node pairs, each written <<x, y>> with x < y
AllPairs == {e \in Nodes \X Nodes : e[1] < e[2]}

\* undirected edges of an adjacency matrix
EdgesOf(Gm) == {e \in AllPairs : Gm[e[1]][e[2]] # 0 \/ Gm[e[2]][e[1]] # 0}

RECURSIVE ReachFrom(_, _)
\* the nodes connected to a node of S by edges of E
ReachFrom(E, S) ==
    LET T == S \cup {e[2] : e \in {e \in E : e[1] \in S}}
               \cup {e[1] : e \in {e \in E : e[2] \in S}}
    IN  IF T = S THEN S ELSE ReachFrom(E, T)

\* E is a tree spanning the node set V
IsTreeOn(E, V) ==
    /\ V # {}
    /\ Cardinality(E) = Cardinality(V) - 1
    /\ \A e \in E : e[1] \in V /\ e[2] \in V
    /\ ReachFrom(E, {CHOOSE x \in V : TRUE}) = V

Trees == {E \in SUBSET AllPairs : IsTreeOn(E, Nodes)}

\* the symmetric weighted adjacency matrix of a tree
MatrixOf(E, w) ==
    [x \in Nodes |-> [y \in Nodes |->
        IF <<x, y>> \in E THEN w[<<x, y>>]
        ELSE IF <<y, x>> \in E THEN w[<<y, x>>] ELSE 0]]

(***************************************************************************)
(* construct_velocity_tree_py, lines 161-271.  The branches read from      *)
(* branch.txt are an input; path(bp) is read as path[bp], and              *)
(* shortest_mat[a][b] as the predecessor of b on a shortest path from a.   *)
(***************************************************************************)
RECURSIVE ExtendPaths(_, _, _)
\* the paths of P and their extensions by at most k edges of Gm to nodes
\* they have not visited
ExtendPaths(Gm, P, k) ==
    IF k = 0 \/ P = {} THEN P
    ELSE P \cup ExtendPaths(Gm,
             UNION {{Append(s, y) :
                        y \in {y \in Nodes : /\ Gm[s[Len(s)]][y] # 0
                                              /\ \A j \in 1..Len(s) : s[j] # y}} :
                    s \in P},
             k - 1)

RECURSIVE PathWeight(_, _)
\* the length of a path: the sum of its edge weights
PathWeight(Gm, s) ==
    IF Len(s) < 2 THEN 0 ELSE Gm[s[1]][s[2]] + PathWeight(Gm, Tail(s))

\* the paths from u to v of least length: what the predecessors returned by
\* shortest_path(csgraph=Gm, directed=False, indices=u) can encode
ShortestPaths(Gm, u, v) ==
    LET P == {s \in ExtendPaths(Gm, {<<u>>}, 2 * NReal - 1) : s[Len(s)] = v}
    IN  {s \in P : \A t \in P : PathWeight(Gm, s) <= PathWeight(Gm, t)}

\* lines 206-210 for the shortest path s = <<u, ..., v>>: the predecessors
\* from that of v back to u, then the predecessor of u itself, for which
\* shortest_path stores -9999
velocityPathOf(s) == <<-9999>> \o SubSeq(s, 1, Len(s) - 1)

\* lines 214-217
validIdxOf(vp, nn) == SelectSeq(vp, LAMBDA x : x <= nn)

\* lines 219-246 at position k (from 0): does reading path[bp + 1] or
\* valid_idx[2] raise IndexError
voteRaises(pth, k, vidx) ==
    Len(vidx) # 1 /\ (k + 1 >= Len(pth) \/ Len(vidx) < 3)

\* lines 219-246 at position k: the vote added to pos_direct.  With one
\* valid index tree_next_point is u_point itself, the angle is NaN and
\* `angle < 90` is false
voteOf(pth, k, vidx) ==
    IF Len(vidx) = 1 THEN 0
    ELSE IF pth[k + 2] = vidx[3] THEN 1 ELSE 0

\* line 265
votesForward(pos, neg) == pos > neg

RECURSIVE writeEdges(_, _, _, _)
\* the loop of lines 266-267 (forward) or of lines 270-271, from position k
writeEdges(dGm, pth, forward, k) ==
    IF k > Len(pth) - 2 THEN dGm
    ELSE LET a == pth[k + 1]
             b == pth[k + 2]
         IN  writeEdges(IF forward THEN [dGm EXCEPT ![a][b] = 1]
                                   ELSE [dGm EXCEPT ![b][a] = 1],
                        pth, forward, k + 1)

\* lines 265-271
decideBranch(dGm, pth, pos, neg) ==
    writeEdges(dGm, pth, votesForward(pos, neg), 0)

\* the branches of the input: sequences of distinct real nodes
Branches ==
    {s \in UNION {[1..k -> RealNodes] : k \in 0..NReal} :
        \A a, b \in DOMAIN s : a # b => s[a] # s[b]}

\* the contents of branch_cell: at most MaxBranches branches
BranchLists == UNION {[1..k -> Branches] : k \in 0..MaxBranches}

(***************************************************************************)
(* Inputs of construct_velocity_tree                                       *)
(***************************************************************************)
\* hard assignment: cell i belongs to cluster i mod NClusters, confidence 1
HardR ==
    [c \in Cells |-> [k \in Clusters |-> IF k = c % NClusters THEN One ELSE Zero]]

ClusterPairs == {e \in Clusters \X Clusters : e[1] < e[2]}
ClusterTrees == {E \in SUBSET ClusterPairs : IsTreeOn(E, Clusters)}

\* the weight of an edge may sit on [r, c], on [c, r], or on both
EdgeEntries == {e \in (0..MaxTreeW) \X (0..MaxTreeW) : e # <<0, 0>>}

ClusterMatrixOf(E, w) ==
    [x \in Clusters |-> [y \in Clusters |->
        IF <<x, y>> \in E THEN w[<<x, y>>][1]
        ELSE IF <<y, x>> \in E THEN w[<<y, x>>][2] ELSE 0]]

(***************************************************************************)
(* The sums of _calculate_segment_probability in floating point.  A float  *)
(* is written as an integer number of units in the last place of the       *)
(* smallest values, with a significand of Precision bits; the sum of two   *)
(* floats is rounded to the nearest float, ties to the even significand.   *)
(***************************************************************************)
RECURSIVE BitLength(_)
\* the number of binary digits of m > 0
BitLength(m) == IF m < 2 THEN 1 ELSE 1 + BitLength(m \div 2)

\* m >= 0 rounded to Precision significant bits
RoundMagnitude(m) ==
    IF m < 2 ^ Precision THEN m
    ELSE LET q == 2 ^ (BitLength(m) - Precision)
             lo == (m \div q) * q
             r == m - lo
         IN  IF 2 * r < q THEN lo
             ELSE IF 2 * r > q THEN lo + q
             ELSE IF (lo \div q) % 2 = 0 THEN lo ELSE lo + q

RoundNearest(x) == IF x < 0 THEN -RoundMagnitude(-x) ELSE RoundMagnitude(x)

\* x + y of two floats
fl_add(x, y) == RoundNearest(x + y)

\* the values np.log returns for step probabilities: floats from -MaxStepLog
\* to 0
StepLogs == {-m : m \in {m \in 0..MaxStepLog : RoundMagnitude(m) = m}}

RECURSIVE probabilityFl(_, _, _)
\* probability[k] of lines 102-104 with the rounded sum
probabilityFl(L, ord, k) ==
    IF k = 0 THEN L[ord[0]][ord[1]]
    ELSE fl_add(probabilityFl(L, ord, k - 1), L[ord[k]][ord[k + 1]])

\* the list returned for the log matrix L, indexed from 0
segmentProbabilityFl(L, ord) ==
    [k \in 0..(Cardinality(DOMAIN ord) - 2) |-> probabilityFl(L, ord, k)]

\* line 121 with > in place of >=
OrientsForwardFl_Strict(p, prev, k) == p[k - 1] > prev[k - 1]

\* the branch of line 121 on floats
OrientsForwardFl(p, prev, k) == p[k - 1] >= prev[k - 1]

\* the body of the loop of lines 117-126 on floats
OrientPairFl(tree, ord, p, prev, k) ==
    LET r == ord[k - 1]
        c == ord[k]
        m == Max(tree[r][c], tree[c][r])
    IN  IF OrientsForwardFl(p, prev, k)
        THEN [tree EXCEPT ![r][c] = m, ![c][r] = 0]
        ELSE [tree EXCEPT ![c][r] = m, ![r][c] = 0]

\* the symmetric log matrix of a chain of clusters 0, 1, ... with the step
\* logarithms steps[1], steps[2], ...
ChainLogMatrix(steps) ==
    [a \in 0..Len(steps) |-> [b \in 0..Len(steps) |->
        IF b = a + 1 THEN steps[b] ELSE IF a = b + 1 THEN steps[a] ELSE 0]]

\* the spanning tree of the chain, each edge given in both directions
ChainTree(K) ==
    [a \in 0..(K - 1) |-> [b \in 0..(K - 1) |->
        IF b = a + 1 \/ a = b + 1 THEN 1 ELSE 0]]

VARIABLES
    pc,                         \* position of the running call
    transition_matrix,          \* adata.obsp[key + "_transition_matrix"]
    R,                          \* adata.uns["cell_order"]["R"]
    transition,                 \* local `transition` of _compute_transition_matrix
    totals,                     \* local `totals` of _compute_transition_matrix
    res,                        \* local `res` of _compute_transition_matrix
    center_transition_matrix,   \* the matrix _compute_transition_matrix returns
    centers_order,              \* adata.uns["cell_order"]["centers_order"]
    orders,                     \* local `orders` of construct_velocity_tree
    segment_p,                  \* local `segment_p`
    segment_p_reversed,         \* local `segment_p_reversed`
    velocity_tree,              \* adata.uns["cell_order"]["center_minSpanningTree"]
    i,                          \* loop variable of construct_velocity_tree
    tree_in,                    \* history: velocity_tree as the caller supplied it
    log_center_transition_matrix,   \* local of _calculate_segment_probability
    G,                          \* the tree remove_velocity_points edits in place
    n,                          \* argument n of remove_velocity_points
    nodeid,                     \* loop variable of remove_velocity_points
    G_in,                       \* history: G as the caller supplied it
    branch_cell,                \* local `branch_cell` of construct_velocity_tree_py
    dG,                         \* local `dG`
    branch,                     \* loop variable `p` over branch_cell
    bp,                         \* loop variable `bp` over the branch
    pos_direct,                 \* local `pos_direct`
    neg_direct,                 \* local `neg_direct`
    velocity_path,              \* local `velocity_path`
    valid_idx                   \* local `valid_idx`

aggVars == <<transition_matrix, R, transition, totals, res, center_transition_matrix>>
treeVars == <<centers_order, orders, segment_p, segment_p_reversed, velocity_tree, i,
              tree_in, log_center_transition_matrix>>
contractVars == <<G, n, nodeid, G_in>>
voterVars == <<branch_cell, dG, branch, bp, pos_direct, neg_direct, velocity_path,
               valid_idx>>
vars == <<pc, aggVars, treeVars, contractVars, voterVars>>

NoMatrix == [a \in Clusters |-> [b \in Clusters |-> Zero]]
NoTotals == [a \in Clusters |-> Zero]
NoGraph == [x \in Nodes |-> [y \in Nodes |-> 0]]
NoTree == [a \in Clusters |-> [b \in Clusters |-> 0]]
NoOrder == [k \in Clusters |-> k]
NoSegments == [k \in 0..(NClusters - 2) |-> Zero]

AggLocalsFresh ==
    /\ transition = NoMatrix
    /\ totals = NoTotals
    /\ res = NoMatrix
    /\ center_transition_matrix = NoMatrix

AggIdle ==
    /\ transition_matrix = [p \in Cells \X Cells |-> 0]
    /\ R = HardR
    /\ AggLocalsFresh

TreeLocalsFresh ==
    /\ log_center_transition_matrix = NoMatrix
    /\ orders = NoOrder
    /\ segment_p = NoSegments
    /\ segment_p_reversed = NoSegments
    /\ i = 1

TreeIdle ==
    /\ centers_order = NoOrder
    /\ velocity_tree = NoTree
    /\ tree_in = NoTree
    /\ TreeLocalsFresh

ContractIdle ==
    /\ G = NoGraph
    /\ G_in = NoGraph
    /\ n = NReal
    /\ nodeid = NReal

NoEdges == [x \in RealNodes |-> [y \in RealNodes |-> 0]]

VoterLocalsFresh ==
    /\ dG = NoEdges
    /\ branch = 0
    /\ bp = 0
    /\ pos_direct = 0
    /\ neg_direct = 0
    /\ velocity_path = <<>>
    /\ valid_idx = <<>>

VoterIdle ==
    /\ branch_cell = <<>>
    /\ VoterLocalsFresh

(***************************************************************************)
(* Specification of the aggregator called on its own                       *)
(***************************************************************************)
InitAgg ==
    /\ pc = "aggregate"
    /\ IsTransitionInput(transition_matrix)
    /\ R \in [Cells -> Rows]
    /\ AggLocalsFresh
    /\ TreeIdle
    /\ ContractIdle
    /\ VoterIdle

\* one call of _compute_transition_matrix(transition_matrix, R)
ComputeTransitionMatrix ==
    /\ pc = "aggregate"
    /\ transition' = transitionOf(transition_matrix, R)
    /\ totals' = totalsOf(transition')
    /\ res' = resOf(transition', totals')
    /\ center_transition_matrix' = Symmetrize(res')
    /\ pc' = "aggregated"
    /\ UNCHANGED <<transition_matrix, R, treeVars, contractVars, voterVars>>

NextAgg == ComputeTransitionMatrix

SpecAgg == InitAgg /\ [][NextAgg]_vars

(***************************************************************************)
(* Specification of construct_velocity_tree(adata)                         *)
(***************************************************************************)
InitTree ==
    /\ pc = "prepare"
    /\ IsTransitionInput(transition_matrix)
    /\ R = HardR
    /\ AggLocalsFresh
    /\ centers_order \in Permutations(Clusters)
    /\ \E E \in ClusterTrees : \E w \in [E -> EdgeEntries] :
           velocity_tree = ClusterMatrixOf(E, w)
    /\ tree_in = velocity_tree
    /\ TreeLocalsFresh
    /\ ContractIdle
    /\ VoterIdle

\* lines 109-115: the matrices and the two likelihood lists
Prepare ==
    /\ pc = "prepare"
    /\ orders' = np_argsort(centers_order)
    /\ transition' = transitionOf(transition_matrix, R)
    /\ totals' = totalsOf(transition')
    /\ res' = resOf(transition', totals')
    /\ center_transition_matrix' = Symmetrize(res')
    /\ log_center_transition_matrix' = logMatrix(center_transition_matrix')
    /\ segment_p' = calculate_segment_probability(center_transition_matrix', orders')
    /\ segment_p_reversed' =
           calculate_segment_probability(center_transition_matrix', Reversed(orders'))
    /\ i' = 1
    /\ pc' = "orient"
    /\ UNCHANGED <<transition_matrix, R, centers_order, velocity_tree, tree_in,
                   contractVars, voterVars>>

\* one iteration of `for i in range(1, len(orders))`
OrientStep ==
    /\ pc = "orient"
    /\ i < NClusters
    /\ velocity_tree' = OrientPair(velocity_tree, orders, segment_p, segment_p_reversed, i)
    /\ i' = i + 1
    /\ UNCHANGED <<pc, aggVars, centers_order, orders, segment_p, segment_p_reversed,
                   tree_in, log_center_transition_matrix, contractVars, voterVars>>

\* `return velocity_tree`
TreeReturn ==
    /\ pc = "orient"
    /\ i = NClusters
    /\ pc' = "oriented"
    /\ UNCHANGED <<aggVars, treeVars, contractVars, voterVars>>

NextTree == Prepare \/ OrientStep \/ TreeReturn

SpecTree == InitTree /\ [][NextTree]_vars

(***************************************************************************)
(* Specification of remove_velocity_points(G, n)                           *)
(***************************************************************************)
InitContract ==
    /\ pc = "contract"
    /\ \E E \in Trees : \E w \in [E -> 1..MaxW] : G = MatrixOf(E, w)
    /\ G_in = G
    /\ n = NReal
    /\ nodeid = n
    /\ AggIdle
    /\ TreeIdle
    /\ VoterIdle

\* one iteration of `for nodeid in range(n, 2 * n)`; indexing past the end of
\* G or of an empty nb_ids raises IndexError
ContractStep ==
    /\ pc = "contract"
    /\ nodeid < 2 * n
    /\ IF nodeid \notin Nodes \/ Len(nbIds(G, nodeid)) = 0
       THEN /\ pc' = "IndexError"
            /\ UNCHANGED <<G, nodeid>>
       ELSE /\ G' = ContractNode(G, nodeid)
            /\ nodeid' = nodeid + 1
            /\ pc' = pc
    /\ UNCHANGED <<n, G_in, aggVars, treeVars, voterVars>>

\* `return G` after the loop
ContractReturn ==
    /\ pc = "contract"
    /\ nodeid = 2 * n
    /\ pc' = "contracted"
    /\ UNCHANGED <<contractVars, aggVars, treeVars, voterVars>>

NextContract == ContractStep \/ ContractReturn

SpecContract == InitContract /\ [][NextContract]_vars

(***************************************************************************)
(* remove_velocity_points(G, n) with n up to the dimension of G            *)
(***************************************************************************)
InitAnyN ==
    /\ pc = "contract"
    /\ \E E \in Trees : \E w \in [E -> 1..MaxW] : G = MatrixOf(E, w)
    /\ G_in = G
    /\ n \in NReal..(2 * NReal)
    /\ nodeid = n
    /\ AggIdle
    /\ TreeIdle
    /\ VoterIdle

SpecAnyN == InitAnyN /\ [][NextContract]_vars

(***************************************************************************)
(* Specification of construct_velocity_tree_py from line 161 on            *)
(***************************************************************************)
\* `path = branch_cell[p]`
path == branch_cell[branch + 1]

InitVoter ==
    /\ pc = "contract"
    /\ \E E \in Trees : \E w \in [E -> 1..MaxW] : G = MatrixOf(E, w)
    /\ G_in = G
    /\ n = NReal
    /\ nodeid = n
    /\ AggIdle
    /\ TreeIdle
    /\ VoterIdle

\* lines 164-189: remove_velocity_points has returned sG, the object G
\* itself; branch_cell is read from branch.txt and dG is zeroed
PyReadBranches ==
    /\ pc = "contracted"
    /\ branch_cell' \in BranchLists
    /\ dG' = NoEdges
    /\ branch' = 0
    /\ pc' = "py_branch"
    /\ UNCHANGED <<bp, pos_direct, neg_direct, velocity_path, valid_idx,
                   contractVars, aggVars, treeVars>>

\* lines 190-193: the next branch of `for p in range(len(branch_cell))`
PyNextBranch ==
    /\ pc = "py_branch"
    /\ branch < Len(branch_cell)
    /\ pos_direct' = 0
    /\ bp' = 0
    /\ pc' = "py_vote"
    /\ UNCHANGED <<branch_cell, dG, branch, neg_direct, velocity_path, valid_idx,
                   contractVars, aggVars, treeVars>>

\* lines 194-246: one iteration of `for bp in range(len(path))`.  The
\* shortest path is looked up in G; when v cannot be reached from u the
\* predecessor read is -9999 and indexing with it raises IndexError
PyVote ==
    /\ pc = "py_vote"
    /\ bp < Len(path)
    /\ LET u == path[bp + 1]
           v == u + n
       IN  IF ShortestPaths(G, u, v) = {}
           THEN /\ pc' = "IndexError"
                /\ UNCHANGED <<bp, pos_direct, velocity_path, valid_idx>>
           ELSE \E s \in ShortestPaths(G, u, v) :
                   /\ velocity_path' = velocityPathOf(s)
                   /\ valid_idx' = validIdxOf(velocity_path', n)
                   /\ IF voteRaises(path, bp, valid_idx')
                      THEN /\ pc' = "IndexError"
                           /\ UNCHANGED <<bp, pos_direct>>
                      ELSE /\ pos_direct' = pos_direct + voteOf(path, bp, valid_idx')
                           /\ bp' = bp + 1
                           /\ pc' = pc
    /\ UNCHANGED <<branch_cell, dG, branch, neg_direct, contractVars, aggVars, treeVars>>

\* lines 248-263: the tally and its print, which reads path[0] and path[-1]
PyTally ==
    /\ pc = "py_vote"
    /\ bp = Len(path)
    /\ neg_direct' = Len(path) - pos_direct
    /\ pc' = IF Len(path) = 0 THEN "IndexError" ELSE "py_decide"
    /\ UNCHANGED <<branch_cell, dG, branch, bp, pos_direct, velocity_path, valid_idx,
                   contractVars, aggVars, treeVars>>

\* lines 265-271: the edges of the branch are written to dG
PyDecide ==
    /\ pc = "py_decide"
    /\ dG' = decideBranch(dG, path, pos_direct, neg_direct)
    /\ branch' = branch + 1
    /\ pc' = "py_branch"
    /\ UNCHANGED <<branch_cell, bp, pos_direct, neg_direct, velocity_path, valid_idx,
                   contractVars, aggVars, treeVars>>

\* the loop over the branches has ended
PyReturn ==
    /\ pc = "py_branch"
    /\ branch = Len(branch_cell)
    /\ pc' = "py_done"
    /\ UNCHANGED <<voterVars, contractVars, aggVars, treeVars>>

\* PyVote raises at the last position of a branch at the latest and PyTally
\* raises on an empty branch, so that no run from line 161 reaches line 265
NextVoter ==
    \/ ContractStep
    \/ ContractReturn
    \/ PyReadBranches
    \/ PyNextBranch
    \/ PyVote
    \/ PyTally
    \/ PyReturn

SpecVoter == InitVoter /\ [][NextVoter]_vars

(***************************************************************************)
(* Lines 248-271 for a branch whose votes have been counted: the number of *)
(* forward votes is drawn from 0..len(path)                                *)
(***************************************************************************)
InitDecide ==
    /\ pc = "py_vote"
    /\ branch_cell \in BranchLists
    /\ Len(branch_cell) > 0
    /\ Len(branch_cell[1]) > 0
    /\ dG = NoEdges
    /\ branch = 0
    /\ bp = Len(branch_cell[1])
    /\ pos_direct \in 0..Len(branch_cell[1])
    /\ neg_direct = 0
    /\ velocity_path = <<>>
    /\ valid_idx = <<>>
    /\ AggIdle
    /\ TreeIdle
    /\ ContractIdle

NextDecide == PyTally \/ PyDecide

SpecDecide == InitDecide /\ [][NextDecide]_vars

(***************************************************************************)
(* construct_velocity_tree on a transition matrix with negative entries    *)
(***************************************************************************)
SignedValues == (-MaxT..MaxT) \ {0}

InitSigned ==
    /\ pc = "prepare"
    /\ \E S \in Supports : \E v \in [S -> SignedValues] :
           transition_matrix = SparseMatrix(S, v)
    /\ R = HardR
    /\ AggLocalsFresh
    /\ centers_order \in Permutations(Clusters)
    /\ \E E \in ClusterTrees : \E w \in [E -> EdgeEntries] :
           velocity_tree = ClusterMatrixOf(E, w)
    /\ tree_in = velocity_tree
    /\ TreeLocalsFresh
    /\ ContractIdle
    /\ VoterIdle

SpecSigned == InitSigned /\ [][NextTree]_vars

(***************************************************************************)
(* construct_velocity_tree from line 102 on, with rounded sums, on a chain *)
(* of 2..MaxPath clusters ordered 0, 1, ...                                *)
(***************************************************************************)
\* len(orders)
pathLen == Cardinality(DOMAIN orders)

InitRounded ==
    /\ pc = "evaluate"
    /\ \E K \in 2..MaxPath : \E steps \in [1..(K - 1) -> StepLogs] :
          /\ centers_order = [k \in 0..(K - 1) |-> k]
          /\ orders = np_argsort(centers_order)
          /\ log_center_transition_matrix = ChainLogMatrix(steps)
          /\ velocity_tree = ChainTree(K)
    /\ tree_in = velocity_tree
    /\ segment_p = NoSegments
    /\ segment_p_reversed = NoSegments
    /\ i = 1
    /\ AggIdle
    /\ ContractIdle
    /\ VoterIdle

\* lines 102-105 for orders and for orders[::-1]
EvaluateRounded ==
    /\ pc = "evaluate"
    /\ segment_p' = segmentProbabilityFl(log_center_transition_matrix, orders)
    /\ segment_p_reversed' =
           segmentProbabilityFl(log_center_transition_matrix, Reversed(orders))
    /\ i' = 1
    /\ pc' = "orient_fl"
    /\ UNCHANGED <<centers_order, orders, velocity_tree, tree_in,
                   log_center_transition_matrix, aggVars, contractVars, voterVars>>

\* one iteration of `for i in range(1, len(orders))`
OrientStepRounded ==
    /\ pc = "orient_fl"
    /\ i < pathLen
    /\ velocity_tree' =
           OrientPairFl(velocity_tree, orders, segment_p, segment_p_reversed, i)
    /\ i' = i + 1
    /\ UNCHANGED <<pc, centers_order, orders, segment_p, segment_p_reversed, tree_in,
                   log_center_transition_matrix, aggVars, contractVars, voterVars>>

\* `return velocity_tree`
ReturnRounded ==
    /\ pc = "orient_fl"
    /\ i = pathLen
    /\ pc' = "oriented_fl"
    /\ UNCHANGED <<aggVars, treeVars, contractVars, voterVars>>

NextRounded == EvaluateRounded \/ OrientStepRounded \/ ReturnRounded

SpecRounded == InitRounded /\ [][NextRounded]_vars

(***************************************************************************)
(* Properties                                                              *)
(***************************************************************************)
\* C1: the matrix the aggregator returns is symmetric
C1_Symmetry ==
    pc = "aggregated" =>
        \A a, b \in Clusters :
            center_transition_matrix[a][b] = center_transition_matrix[b][a]

\* a run of the aggregator that produced a nonzero off-diagonal entry
C1_Witness ==
    /\ pc = "aggregated"
    /\ \E a, b \in Clusters : a < b /\ center_transition_matrix[a][b] # Zero

\* q(a, b) of the specification, for any pair of clusters
qFull(a, b) ==
    SumPairs(transition_matrix, highest_probability(R),
             clusters(R)[a] \X clusters(R)[b], Zero)

\* the sum of q(a, b) over all clusters b
fullTotal(a) == SumOver([b \in Clusters |-> qFull(a, b)], 0, NClusters - 1)

rowSum(a) == SumOver(res[a], 0, NClusters - 1)

\* C2 as stated: with total[a] the sum of q(a,b) over ALL clusters b, every
\* row of the normalized matrix with total[a] > 0 sums to 1
C2_AsStated ==
    pc = "aggregated" =>
        \A a \in Clusters : Less(Zero, fullTotal(a)) => rowSum(a) = One

\* C2 (amended): every row a of the normalized matrix res whose accumulated
\* total totals[a] (the sum of q(a,b) over the clusters b >= a) is positive
\* sums to 1
C2_MassConservation ==
    pc = "aggregated" =>
        \A a \in Clusters : Less(Zero, totals[a]) => rowSum(a) = One

\* a row with two different nonzero normalized entries
C2_Witness ==
    /\ pc = "aggregated"
    /\ \E a, b, c \in Clusters :
          /\ b < c
          /\ Less(Zero, totals[a])
          /\ Less(Zero, res[a][b])
          /\ Less(res[a][b], res[a][c])

\* the ordering visits r and c one after the other
Consecutive(ord, r, c) ==
    \E k \in 1..(NClusters - 1) : {ord[k - 1], ord[k]} = {r, c}

TreeEdges(tree) == {e \in ClusterPairs : tree[e[1]][e[2]] # 0 \/ tree[e[2]][e[1]] # 0}

Covers(ord, tree) == \A e \in TreeEdges(tree) : Consecutive(ord, e[1], e[2])

\* C3: when the ordering covers every edge of the spanning tree supplied,
\* the returned tree has exactly one nonzero direction for each such edge
C3_OrientationComplete ==
    (pc = "oriented" /\ Covers(orders, tree_in)) =>
        \A e \in TreeEdges(tree_in) :
            (velocity_tree[e[1]][e[2]] # 0) # (velocity_tree[e[2]][e[1]] # 0)

\* a covered tree with an edge given in both directions, one edge oriented
\* along the ordering and one against it
C3_Witness ==
    /\ pc = "oriented"
    /\ Covers(orders, tree_in)
    /\ \E e \in TreeEdges(tree_in) : tree_in[e[1]][e[2]] # 0 /\ tree_in[e[2]][e[1]] # 0
    /\ \E k \in 1..(NClusters - 1) : velocity_tree[orders[k - 1]][orders[k]] # 0
    /\ \E k \in 1..(NClusters - 1) : velocity_tree[orders[k]][orders[k - 1]] # 0

NoDuplicateAdjacent(Gm) == \A x, y \in DuplicateNodes : Gm[x][y] = 0

\* C4: contracting a tree in which no two duplicates are adjacent returns a
\* tree over the real nodes only
C4_ContractionYieldsTree ==
    (pc = "contracted" /\ NoDuplicateAdjacent(G_in)) =>
        IsTreeOn(EdgesOf(G), RealNodes)

AllFinite(m) == \A a, b \in Clusters : IsFinite(m[a][b])

\* C5: no output of the aggregator or of the evaluator holds NaN or an
\* infinity; a division by a zero total yields 0
C5_ZeroSafety ==
    pc \in {"orient", "oriented"} =>
        /\ AllFinite(center_transition_matrix)
        /\ \A k \in 0..(NClusters - 2) :
              IsFinite(segment_p[k]) /\ IsFinite(segment_p_reversed[k])
        /\ \A a, b \in Clusters : totals[a] = Zero => res[a][b] = Zero

\* C7 as stated: the worked example is normalized by the totals 2, 3, 1
C7_AsStated ==
    (pc = "aggregated" /\ transition_matrix = ExampleMatrix /\ R = HardR) =>
        /\ totals[0] = Fin(2, 1) /\ totals[1] = Fin(3, 1) /\ totals[2] = Fin(1, 1)
        /\ \A a, b \in 0..2 :
              (center_transition_matrix[a][b] # Zero) <=> (ExampleMatrix[a, b] # 0)

\* C7 (amended): the worked example is normalized by the totals 2, 1, 0 (the
\* sums over b >= a), and the output is nonzero exactly where the input is
C7_Example ==
    (pc = "aggregated" /\ transition_matrix = ExampleMatrix /\ R = HardR) =>
        /\ totals[0] = Fin(2, 1) /\ totals[1] = Fin(1, 1) /\ totals[2] = Zero
        /\ \A a, b \in 0..2 :
              (center_transition_matrix[a][b] # Zero) <=> (ExampleMatrix[a, b] # 0)

C7_Witness ==
    /\ pc = "aggregated"
    /\ transition_matrix = ExampleMatrix
    /\ R = HardR
    /\ center_transition_matrix[0][1] = One

\* a step of the contractor on node `nodeid`
Processed == pc = "contract" /\ nodeid' = nodeid + 1

\* C8: after a duplicate node has been processed no edge touches it
C8_NoIncidentEdge ==
    [][Processed => \A k \in Nodes : G'[nodeid][k] = 0 /\ G'[k][nodeid] = 0]_vars

neighbors(Gm, v) == {k \in Nodes : Gm[v][k] # 0}

\* the neighbor of least edge weight, the lowest index among equals
minNeighbor(Gm, v) ==
    CHOOSE m \in neighbors(Gm, v) :
        \A k \in neighbors(Gm, v) :
            Gm[v][m] < Gm[v][k] \/ (Gm[v][m] = Gm[v][k] /\ m <= k)

\* C9: a duplicate with several neighbors leaves every neighbor k other than
\* the minimum-weight neighbor m joined to m with weight G[v,k] + G[v,m]
C9_StarOnMinimum ==
    [][(Processed /\ Cardinality(neighbors(G, nodeid)) > 1) =>
          LET m == minNeighbor(G, nodeid)
          IN  \A k \in neighbors(G, nodeid) \ {m} :
                  /\ G'[k][m] = G[nodeid][k] + G[nodeid][m]
                  /\ G'[m][k] = G[nodeid][k] + G[nodeid][m]]_vars

\* the first duplicate had three neighbors, two of them at the least weight
\* and one heavier, and has been processed
C9_Witness ==
    /\ pc = "contract"
    /\ nodeid = n + 1
    /\ Cardinality(neighbors(G_in, n)) > 2
    /\ \E k \in neighbors(G_in, n) :
          /\ k # minNeighbor(G_in, n)
          /\ G_in[n][k] = G_in[n][minNeighbor(G_in, n)]
          /\ G[k][minNeighbor(G_in, n)] = 2 * G_in[n][k]
    /\ \E k \in neighbors(G_in, n) : G_in[n][k] > G_in[n][minNeighbor(G_in, n)]

\* C10: a duplicate with one neighbor k loses the edge to k and nothing else
\* of G changes
C10_LeafPruning ==
    [][(Processed /\ Cardinality(neighbors(G, nodeid)) = 1) =>
          LET k == CHOOSE k \in neighbors(G, nodeid) : TRUE
          IN  \A x, y \in Nodes :
                  G'[x][y] = IF <<x, y>> \in {<<nodeid, k>>, <<k, nodeid>>}
                             THEN 0 ELSE G[x][y]]_vars

\* the first duplicate was a leaf and has been processed
C10_Witness ==
    /\ pc = "contract"
    /\ nodeid = n + 1
    /\ Cardinality(neighbors(G_in, n)) = 1
    /\ G # G_in

\* a step of the orienter on the pair orders[i - 1], orders[i]
Oriented == pc = "orient" /\ i' = i + 1

\* C11: for the pair r = orders[i-1], c = orders[i] the orienter keeps r -> c
\* when segment_p[i-1] >= segment_p_reversed[i-1] and c -> r otherwise; the
\* kept entry is the larger of the two entries the pair held before and the
\* other entry is 0; equal likelihoods keep r -> c
C11_OrientationRule ==
    [][Oriented =>
          LET r == orders[i - 1]
              c == orders[i]
              m == IF velocity_tree[r][c] >= velocity_tree[c][r]
                   THEN velocity_tree[r][c] ELSE velocity_tree[c][r]
          IN  IF LnGeq(segment_p[i - 1], segment_p_reversed[i - 1])
              THEN velocity_tree'[r][c] = m /\ velocity_tree'[c][r] = 0
              ELSE velocity_tree'[c][r] = m /\ velocity_tree'[r][c] = 0]_vars

\* a returned tree with one pair of equal likelihoods kept forward and one
\* pair of smaller forward likelihood kept backward, both with weight
C11_Witness ==
    /\ pc = "oriented"
    /\ \E k \in 1..(NClusters - 1) :
          /\ LnGeq(segment_p[k - 1], segment_p_reversed[k - 1])
          /\ LnGeq(segment_p_reversed[k - 1], segment_p[k - 1])
          /\ tree_in[orders[k]][orders[k - 1]] > tree_in[orders[k - 1]][orders[k]]
          /\ velocity_tree[orders[k - 1]][orders[k]] = tree_in[orders[k]][orders[k - 1]]
    /\ \E k \in 1..(NClusters - 1) :
          /\ ~LnGeq(segment_p[k - 1], segment_p_reversed[k - 1])
          /\ velocity_tree[orders[k]][orders[k - 1]] # 0

\* C12: the orienter leaves every entry of a pair the ordering does not visit
\* consecutively as the caller supplied it, and a consecutive pair with both
\* entries 0 on input has both entries 0 on output
C12_Frame ==
    pc \in {"orient", "oriented"} =>
        \A r, c \in Clusters :
            /\ ~Consecutive(orders, r, c) => velocity_tree[r][c] = tree_in[r][c]
            /\ (Consecutive(orders, r, c) /\ tree_in[r][c] = 0 /\ tree_in[c][r] = 0) =>
                  (velocity_tree[r][c] = 0 /\ velocity_tree[c][r] = 0)

\* a returned tree that differs from the supplied one, with a nonzero entry on
\* a pair the ordering does not visit and a consecutive pair without an edge
C12_Witness ==
    /\ pc = "oriented"
    /\ velocity_tree # tree_in
    /\ \E r, c \in Clusters :
          r # c /\ ~Consecutive(orders, r, c) /\ tree_in[r][c] # 0 /\ tree_in[c][r] # 0
    /\ \E r, c \in Clusters :
          Consecutive(orders, r, c) /\ tree_in[r][c] = 0 /\ tree_in[c][r] = 0

\* the probability of step j of the ordering, 1 for a step of probability 0
stepFactor(M, ord, j) ==
    LET x == M[ord[j]][ord[j + 1]]
    IN  IF x[1] = "fin" /\ x[2] > 0 THEN x ELSE One

RECURSIVE pathProduct(_, _, _)
\* the product of the step probabilities 0..k that are not 0
pathProduct(M, ord, k) ==
    IF k = 0 THEN stepFactor(M, ord, 0)
    ELSE Mul(pathProduct(M, ord, k - 1), stepFactor(M, ord, k))

\* p is the list of the cumulative log-probabilities of M along ord
IsCumulativeLog(p, M, ord) ==
    /\ DOMAIN p = 0..(NClusters - 2)
    /\ \A k \in DOMAIN p :
          /\ p[k] = Zero \/ p[k][1] = "ln"
          /\ ExpNum(p[k]) * pathProduct(M, ord, k)[3]
                = ExpDen(p[k]) * pathProduct(M, ord, k)[2]
          /\ (k > 0 /\ M[ord[k]][ord[k + 1]] = Zero) => p[k] = p[k - 1]

\* C13: the evaluator returns n - 1 values, the k-th being the sum over the
\* steps j <= k of log M[order[j], order[j+1]] with the logarithm of 0 taken
\* as 0, so that a step of probability 0 leaves the running sum unchanged
C13_CumulativeLog ==
    pc \in {"orient", "oriented"} =>
        /\ IsCumulativeLog(segment_p, center_transition_matrix, orders)
        /\ IsCumulativeLog(segment_p_reversed, center_transition_matrix,
                           Reversed(orders))

\* the second step of the ordering has probability 0 and the first has a
\* probability strictly between 0 and 1
C13_Witness ==
    /\ pc = "oriented"
    /\ center_transition_matrix[orders[1]][orders[2]] = Zero
    /\ segment_p[0][1] = "ln"
    /\ segment_p[1] = segment_p[0]
    /\ segment_p_reversed[0] = Zero

\* C20: on nonnegative inputs every entry of the matrix the aggregator
\* returns is a nonnegative number, and a cluster no cell is assigned to has
\* an all-zero row and column
C20_Nonnegative ==
    pc = "aggregated" =>
        /\ \A a, b \in Clusters :
              /\ center_transition_matrix[a][b][1] = "fin"
              /\ center_transition_matrix[a][b][2] >= 0
        /\ \A a \in Clusters :
              clusters(R)[a] = {} =>
                  \A b \in Clusters :
                      /\ center_transition_matrix[a][b] = Zero
                      /\ center_transition_matrix[b][a] = Zero

\* one cluster is empty and the other two exchange mass
C20_Witness ==
    /\ pc = "aggregated"
    /\ \E a \in Clusters : clusters(R)[a] = {}
    /\ \E a, b \in Clusters : a # b /\ Less(Zero, center_transition_matrix[a][b])

\* C19: a call of the contractor with 2n larger than the dimension of G that
\* fails leaves the caller's G with the entries it had before the call
C19_NoPartialResult ==
    (pc = "IndexError" /\ 2 * n > 2 * NReal) => G = G_in

C15_LookupOnOriginal ==
    pc = "py_vote" => G = G_in

\* C16: valid_idx holds the nodes of the velocity path whose index is
\* strictly less than n, and no other
C16_ValidIdx ==
    valid_idx = SelectSeq(velocity_path, LAMBDA x : x < n)

\* the voter has stopped on a branch
RaisedOnBranch == pc = "IndexError" /\ branch < Len(branch_cell)

\* C17: a branch of length 0 or 1 is passed over without an error
C17_ShortBranchSkipped ==
    RaisedOnBranch => Len(path) >= 2

\* the voter has stopped, by returning or by raising, after reading branches
VoterStopped == pc = "py_done" \/ RaisedOnBranch

\* C18: dG holds every branch in one direction: for each branch either all
\* the edges path[bp] -> path[bp+1] and none of the reversed ones, or all
\* the reversed edges and none of the forward ones
C18_BranchEdges ==
    VoterStopped =>
        \A b \in 1..Len(branch_cell) :
            LET pth == branch_cell[b]
                steps == 1..(Len(pth) - 1)
            IN  \/ \A k \in steps : dG[pth[k]][pth[k + 1]] = 1 /\ dG[pth[k + 1]][pth[k]] = 0
                \/ \A k \in steps : dG[pth[k + 1]][pth[k]] = 1 /\ dG[pth[k]][pth[k + 1]] = 0

\* x is the logarithm of a number of (0, 1]: 0 or negative
IsLogOfProbability(x) == (x = Zero \/ x[1] = "ln") /\ LnGeq(Zero, x)

\* p never increases from one entry to the next
NonIncreasing(p) ==
    \A k \in 1..(NClusters - 2) :
        IsLogOfProbability(p[k]) /\ LnGeq(p[k - 1], p[k])

\* C21: on the matrix the aggregator returns for nonnegative inputs every
\* entry lies in [0, 1], every step log-likelihood is <= 0 and the cumulative
\* sequence the evaluator returns never increases
C21_Monotone ==
    pc \in {"orient", "oriented"} =>
        /\ \A a, b \in Clusters :
              /\ center_transition_matrix[a][b][1] = "fin"
              /\ center_transition_matrix[a][b][2] >= 0
              /\ center_transition_matrix[a][b][2] <= center_transition_matrix[a][b][3]
              /\ IsLogOfProbability(logMatrix(center_transition_matrix)[a][b])
        /\ NonIncreasing(segment_p)
        /\ NonIncreasing(segment_p_reversed)

\* both steps of the ordering have a probability strictly between 0 and 1
\* and the cumulative sequence strictly decreases
C21_Witness ==
    /\ pc = "oriented"
    /\ segment_p[0][1] = "ln"
    /\ segment_p[1][1] = "ln"
    /\ ~LnGeq(segment_p[1], segment_p[0])

RECURSIVE OrientFrom(_, _, _, _, _)
\* the loop of lines 117-126 from index k to its end, applied to tree
OrientFrom(tree, ord, p, prev, k) ==
    IF k > NClusters - 1 THEN tree
    ELSE OrientFrom(OrientPair(tree, ord, p, prev, k), ord, p, prev, k + 1)

\* C23: the orientation loop applied to the tree it returned, with the same
\* ordering and the same segment likelihoods, changes no entry
C23_Idempotent ==
    pc = "oriented" =>
        OrientFrom(velocity_tree, orders, segment_p, segment_p_reversed, 1)
            = velocity_tree

\* the first pass changed the tree: a pair given in both directions was
\* oriented along the ordering and another one against it
C23_Witness ==
    /\ pc = "oriented"
    /\ \E k \in 1..(NClusters - 1) :
          /\ tree_in[orders[k - 1]][orders[k]] # 0
          /\ tree_in[orders[k]][orders[k - 1]] # 0
          /\ velocity_tree[orders[k]][orders[k - 1]] = 0
    /\ \E k \in 1..(NClusters - 1) :
          /\ tree_in[orders[k - 1]][orders[k]] # 0
          /\ velocity_tree[orders[k - 1]][orders[k]] = 0
          /\ velocity_tree[orders[k]][orders[k - 1]] # 0

\* tmx with every entry whose source cell is assigned to a higher-indexed
\* cluster than its target cell set to 0
LowerMasked(tmx, Rm) ==
    LET asg == assignment(Rm)
    IN  [e \in Cells \X Cells |-> IF asg[e[1]] > asg[e[2]] THEN 0 ELSE tmx[e]]

\* the matrix _compute_transition_matrix returns for tmx and Rm; each stage
\* is bound as the element of a singleton, so that it is computed once
aggregate(tmx, Rm) ==
    CHOOSE M \in UNION {UNION {{Symmetrize(resOf(trans, tot))} :
                                   tot \in {totalsOf(trans)}} :
                            trans \in {transitionOf(tmx, Rm)}} : TRUE

\* C24: the matrix the aggregator returns is the one it returns for the input
\* with the entries transition_matrix[i, j], assignment[i] > assignment[j],
\* set to 0: two inputs that agree on R and on the other entries get the same
\* matrix
C24_IgnoresLowerEntries ==
    pc = "aggregated" =>
        center_transition_matrix = aggregate(LowerMasked(transition_matrix, R), R)

\* the input has a nonzero entry from a higher-indexed cluster to a lower one
\* and one in the other direction, and the matrix returned is not zero
C24_Witness ==
    /\ pc = "aggregated"
    /\ LowerMasked(transition_matrix, R) # transition_matrix
    /\ \E a, b \in Clusters : a < b /\ center_transition_matrix[a][b] # Zero

\* the last pair of the ordering is oriented forward
LastPairForward ==
    /\ velocity_tree[orders[pathLen - 2]][orders[pathLen - 1]] # 0
    /\ velocity_tree[orders[pathLen - 1]][orders[pathLen - 2]] = 0

\* C22 as stated: whatever the log-likelihoods, the last consecutive pair of
\* the ordering is oriented forward
C22_AsStated ==
    pc = "oriented_fl" => LastPairForward

\* C22 (amended): for an ordering of at most 3 clusters the full-path sums of
\* the ordering and of its reverse are equal as computed and the last pair
\* is oriented forward
C22_LastPairForward ==
    (pc = "oriented_fl" /\ pathLen <= 3) =>
        /\ segment_p[pathLen - 2] = segment_p_reversed[pathLen - 2]
        /\ LastPairForward

\* three clusters with different step logarithms whose sum was rounded, the
\* first pair oriented backward and the last forward
C22_Witness ==
    /\ pc = "oriented_fl"
    /\ pathLen = 3
    /\ segment_p[1] # log_center_transition_matrix[0][1]
                         + log_center_transition_matrix[1][2]
    /\ velocity_tree[1][0] # 0
    /\ LastPairForward
====
